---- MODULE Spec2Model ----
(***************************************************************************)
(* Model of bb_behavior/trophallaxis/prefilter.py: the resumable sweep     *)
(* prefilter_data_for_timerange, the archive naming rule, and the loaders  *)
(* load_processed_data / load_all_processed_data.                          *)
(*                                                                         *)
(* Text (file names) is modelled as sequences of one-character strings,    *)
(* datetimes at day granularity as day numbers counted from 2021-01-01,    *)
(* msgpack payloads as byte sequences.                                     *)
(***************************************************************************)
EXTENDS Integers, Sequences, FiniteSets, TLC

\* ------------------------------------------------------------------ bounds
MaxDay == 1        \* dt_from, dt_to range over days 0..MaxDay
MaxFrames == 7     \* get_frames returns at most this many frames per window
NumRuns == 2       \* number of invocations of the sweep that are modelled
MaxPaths == 2      \* longest list handed to load_all_processed_data
MaxBatch == 2      \* longest pose array handed to the scoring

\* ------------------------------------------------------- program constants
NumCams == 4       \* range(4)
Stride == 3        \* idx % 3 == 0
U16 == 65536       \* np.uint16 holds values modulo 2^16

Cams == 0 .. (NumCams - 1)
Days == 0 .. MaxDay
Procs == 1 .. NumRuns

\* --------------------------------------------------------------------- text
Digits == <<"0", "1", "2", "3", "4", "5", "6", "7", "8", "9">>

DigitChar(d) == Digits[d + 1]

TwoDigits(n) == <<DigitChar(n \div 10), DigitChar(n % 10)>>

\* str(int) for a camera id (one decimal digit for range(4))
IntStr(n) == IF n < 10 THEN <<DigitChar(n)>> ELSE TwoDigits(n)

\* str(datetime) of midnight of day d, days counted from 2021-01-01
DtStr(d) ==
    <<"2", "0", "2", "1", "-", "0", "1", "-">> \o TwoDigits(d + 1)
        \o <<" ", "0", "0", ":", "0", "0", ":", "0", "0">>

\* datetime.timestamp() of midnight of day d, in seconds
DaySeconds == 86400

Timestamp(d) == d * DaySeconds

\* s.startswith(p) at offset i (1-based): p occurs in s at position i
OccursAt(s, p, i) ==
    /\ i + Len(p) - 1 <= Len(s)
    /\ \A k \in 1 .. Len(p) : s[i + k - 1] = p[k]

\* str.replace(old, new): every non-overlapping occurrence, left to right
RECURSIVE ReplaceFrom(_, _, _, _)
ReplaceFrom(s, old, new, i) ==
    IF i > Len(s) THEN <<>>
    ELSE IF OccursAt(s, old, i)
         THEN new \o ReplaceFrom(s, old, new, i + Len(old))
         ELSE <<s[i]>> \o ReplaceFrom(s, old, new, i + 1)

Replace(s, old, new) == ReplaceFrom(s, old, new, 1)

\* str.endswith(suffix)
EndsWith(s, suffix) ==
    /\ Len(suffix) <= Len(s)
    /\ OccursAt(s, suffix, Len(s) - Len(suffix) + 1)

\* s.split("/")[-1]: the text after the last "/"
RECURSIVE LastSlash(_, _)
LastSlash(s, i) ==
    IF i = 0 THEN 0 ELSE IF s[i] = "/" THEN i ELSE LastSlash(s, i - 1)

LeafName(s) == SubSeq(s, LastSlash(s, Len(s)) + 1, Len(s))

ZipWord == <<"z", "i", "p">>
DotZip == <<".">> \o ZipWord
MsgpackWord == <<"m", "s", "g", "p", "a", "c", "k">>
DotMsgpack == <<".">> \o MsgpackWord
FailedSuffix ==
    <<".", "f", "a", "i", "l", "e", "d", ".", "c", "l", "o", "u", "d",
      "p", "i", "c", "k", "l", "e">>

\* target_dir handed to the sweep
TargetDir == <<"/", "d">>

\* dt_to_string(cam, dt, dt_to), prefilter.py:177-179
dt_to_string(cam, dt, dt_end) ==
    TargetDir \o <<"/", "p", "r", "e", "f", "i", "l", "t", "e", "r", ".">>
        \o IntStr(cam) \o <<"_">> \o DtStr(dt) \o <<"_">> \o DtStr(dt_end)
        \o DotZip

\* name of the inner entry the sweep writes, prefilter.py:232
WriteEntryName(output_filename) ==
    Replace(LeafName(output_filename), ZipWord, MsgpackWord)

\* variant: the loader derives the entry name from the whole path
ReadEntryName_FullPath(f) == Replace(f, DotZip, DotMsgpack)

\* name of the inner entry the loader opens, prefilter.py:116
ReadEntryName(f) == Replace(LeafName(f), DotZip, DotMsgpack)

\* ------------------------------------------------------------------ msgpack
\* big-endian bytes of v in n bytes
RECURSIVE BigEndian(_, _)
BigEndian(v, n) ==
    IF n = 0 THEN <<>> ELSE BigEndian(v \div 256, n - 1) \o <<v % 256>>

\* msgpack encoding of a non-negative integer (fixint, uint8/16/32)
PackInt(v) ==
    IF v < 128 THEN <<v>>
    ELSE IF v < 256 THEN <<204>> \o BigEndian(v, 1)
    ELSE IF v < 65536 THEN <<205>> \o BigEndian(v, 2)
    ELSE <<206>> \o BigEndian(v, 4)

\* msgpack array header (fixarray, array16)
PackArrayHeader(n) ==
    IF n < 16 THEN <<144 + n>> ELSE <<220>> \o BigEndian(n, 2)

RECURSIVE PackInts(_)
PackInts(t) ==
    IF t = <<>> THEN <<>> ELSE PackInt(Head(t)) \o PackInts(Tail(t))

\* a row tuple is written as an array of its integers
PackRow(t) == PackArrayHeader(Len(t)) \o PackInts(t)

RECURSIVE PackRows(_)
PackRows(rows) ==
    IF rows = <<>> THEN <<>> ELSE PackRow(Head(rows)) \o PackRows(Tail(rows))

\* msgpack.dump(raw_df, file): a list of row tuples, prefilter.py:233
msgpack_dump(rows) == PackArrayHeader(Len(rows)) \o PackRows(rows)

RECURSIVE FromBigEndian(_, _, _)
FromBigEndian(b, i, n) ==
    IF n = 0 THEN 0 ELSE FromBigEndian(b, i, n - 1) * 256 + b[i + n - 1]

\* Parse one integer at position i: <<ok, value, next position>>
UnpackInt(b, i) ==
    IF i > Len(b) THEN <<FALSE, 0, i>>
    ELSE IF b[i] < 128 THEN <<TRUE, b[i], i + 1>>
    ELSE IF b[i] = 204 /\ i + 1 <= Len(b)
         THEN <<TRUE, FromBigEndian(b, i + 1, 1), i + 2>>
    ELSE IF b[i] = 205 /\ i + 2 <= Len(b)
         THEN <<TRUE, FromBigEndian(b, i + 1, 2), i + 3>>
    ELSE IF b[i] = 206 /\ i + 4 <= Len(b)
         THEN <<TRUE, FromBigEndian(b, i + 1, 4), i + 5>>
    ELSE <<FALSE, 0, i>>

\* Parse an array header at position i: <<ok, length, next position>>
UnpackArrayHeader(b, i) ==
    IF i > Len(b) THEN <<FALSE, 0, i>>
    ELSE IF b[i] >= 144 /\ b[i] < 160 THEN <<TRUE, b[i] - 144, i + 1>>
    ELSE IF b[i] = 220 /\ i + 2 <= Len(b)
         THEN <<TRUE, FromBigEndian(b, i + 1, 2), i + 3>>
    ELSE <<FALSE, 0, i>>

\* Parse n integers from position i: <<ok, values, next position>>
RECURSIVE UnpackInts(_, _, _)
UnpackInts(b, i, n) ==
    IF n = 0 THEN <<TRUE, <<>>, i>>
    ELSE LET v == UnpackInt(b, i)
         IN  IF ~v[1] THEN <<FALSE, <<>>, i>>
             ELSE LET r == UnpackInts(b, v[3], n - 1)
                  IN  <<r[1], <<v[2]>> \o r[2], r[3]>>

\* Parse n rows (arrays of integers) from position i
RECURSIVE UnpackRows(_, _, _)
UnpackRows(b, i, n) ==
    IF n = 0 THEN <<TRUE, <<>>, i>>
    ELSE LET h == UnpackArrayHeader(b, i)
         IN  IF ~h[1] THEN <<FALSE, <<>>, i>>
             ELSE LET t == UnpackInts(b, h[3], h[2])
                  IN  IF ~t[1] THEN <<FALSE, <<>>, i>>
                      ELSE LET r == UnpackRows(b, t[3], n - 1)
                           IN  <<r[1], <<t[2]>> \o r[2], r[3]>>

\* msgpack.load(f, ...), prefilter.py:123. The result is
\*   [kind |-> "err"]               the payload does not deserialize
\*   [kind |-> "int", val |-> v]    the payload is a bare integer
\*   [kind |-> "arr", items |-> r]  the payload is a list of integer lists
\* Trailing bytes after the first object are an error (ExtraData).
msgpack_load(b) ==
    LET h == UnpackArrayHeader(b, 1)
        v == UnpackInt(b, 1)
    IN  IF h[1]
        THEN LET r == UnpackRows(b, h[3], h[2])
             IN  IF r[1] /\ r[3] = Len(b) + 1
                 THEN [kind |-> "arr", items |-> r[2]]
                 ELSE [kind |-> "err"]
        ELSE IF v[1] /\ v[3] = Len(b) + 1
             THEN [kind |-> "int", val |-> v[2]]
             ELSE [kind |-> "err"]

\* ---------------------------------------------------------------- file system
\* A file system maps a path (text) to a file. A file is a zip container
\* with named entries, a diagnostic pickle of frame keys, or plain bytes.
NoEntries == <<>>

ZipFileOf(entry, payload) ==
    [kind |-> "zip", entries |-> (entry :> payload), bytes |-> <<>>,
     keys |-> <<>>]

PickleFileOf(keys) ==
    [kind |-> "pickle", entries |-> NoEntries, bytes |-> <<>>, keys |-> keys]

RawFileOf(bytes) ==
    [kind |-> "raw", entries |-> NoEntries, bytes |-> bytes, keys |-> <<>>]

\* variant: the archive is created exclusively; a file that is already at
\* the path is kept
WriteFile_Exclusive(fs, path, file) ==
    IF path \in DOMAIN fs THEN fs ELSE (path :> file) @@ fs

\* open(path, "w") / ZipFile(path, "w"): create or replace the file at path
WriteFile(fs, path, file) ==
    [q \in (DOMAIN fs) \cup {path} |-> IF q = path THEN file ELSE fs[q]]

\* variant: the existence check never finds the archive
isfile_Never(fs, path) == FALSE

\* os.path.isfile(path), prefilter.py:181
isfile(fs, path) == path \in DOMAIN fs

\* A source handed to the loader: a path (str) or an already open stream
PathSource(path) == [type |-> "str", path |-> path, bytes |-> <<>>]

StreamSource(bytes) == [type |-> "stream", path |-> <<>>, bytes |-> bytes]

\* ---------------------------------------------------------------- the loader
\* Resolution of a source to a byte stream, prefilter.py:112-120.
\*   "stream"  a stream was opened (or given) and holds .bytes
\*   "raise"   opening the container or its entry raised, outside the try
\*   "str"     a path with neither extension falls through to msgpack.load
OpenSource(fs, f) ==
    IF f.type = "stream" THEN [status |-> "stream", bytes |-> f.bytes]
    ELSE IF EndsWith(f.path, DotZip)
    THEN IF ~isfile(fs, f.path) \/ fs[f.path].kind # "zip"
         THEN [status |-> "raise", bytes |-> <<>>]
         ELSE IF ReadEntryName(f.path) \notin DOMAIN fs[f.path].entries
              THEN [status |-> "raise", bytes |-> <<>>]
              ELSE [status |-> "stream",
                    bytes |-> fs[f.path].entries[ReadEntryName(f.path)]]
    ELSE IF EndsWith(f.path, DotMsgpack)
    THEN IF ~isfile(fs, f.path)
         THEN [status |-> "raise", bytes |-> <<>>]
         ELSE [status |-> "stream", bytes |-> fs[f.path].bytes]
    ELSE [status |-> "str", bytes |-> <<>>]

\* data.frame_id.unique(), prefilter.py:132
FrameIdsOf(rows) == {rows[i][1] : i \in 1 .. Len(rows)}

\* data.merge(metadata, on="frame_id", how="inner"), prefilter.py:137-140:
\* the rows whose frame_id the metadata knows, in order, each extended with
\* the frame's timestamp and datetime (day number, second of the day).
RECURSIVE MergeInner(_, _)
MergeInner(rows, ts) ==
    IF rows = <<>> THEN <<>>
    ELSE LET r == Head(rows)
         IN  (IF r[1] \in DOMAIN ts
              THEN << r \o <<ts[r[1]], ts[r[1]] \div DaySeconds,
                             ts[r[1]] % DaySeconds>> >>
              ELSE <<>>) \o MergeInner(Tail(rows), ts)

NoneResult(q) ==
    [status |-> "none", rows |-> <<>>, queried |-> q, ids |-> {}]

RaiseResult(q) ==
    [status |-> "raise", rows |-> <<>>, queried |-> q, ids |-> {}]

\* pd.DataFrame(data, columns=[3 names], dtype=np.uint64) accepts a list of
\* rows of three values, prefilter.py:131
IsThreeColumns(items) == \A i \in 1 .. Len(items) : Len(items[i]) = 3

\* variant: the loader lacks the test for an empty payload
LoadStream_NoEmptyTest(bytes, md) ==
    LET data == msgpack_load(bytes)
    IN  IF data.kind = "err" THEN NoneResult(FALSE)
        ELSE IF data.kind = "int" THEN RaiseResult(FALSE)
        ELSE IF ~IsThreeColumns(data.items) THEN RaiseResult(FALSE)
        ELSE IF md.fails
        THEN [RaiseResult(TRUE) EXCEPT !.ids = FrameIdsOf(data.items)]
        ELSE [status |-> "table", rows |-> MergeInner(data.items, md.ts),
              queried |-> TRUE, ids |-> FrameIdsOf(data.items)]

\* variant: an exception of the metadata lookup is answered with None
LoadStream_LookupNone(bytes, md) ==
    LET data == msgpack_load(bytes)
    IN  IF data.kind = "err" THEN NoneResult(FALSE)
        ELSE IF data.kind = "int"
        THEN IF data.val = 0 THEN NoneResult(FALSE) ELSE RaiseResult(FALSE)
        ELSE IF data.items = <<>> THEN NoneResult(FALSE)
        ELSE IF ~IsThreeColumns(data.items) THEN RaiseResult(FALSE)
        ELSE IF md.fails
        THEN [NoneResult(TRUE) EXCEPT !.ids = FrameIdsOf(data.items)]
        ELSE [status |-> "table", rows |-> MergeInner(data.items, md.ts),
              queried |-> TRUE, ids |-> FrameIdsOf(data.items)]

\* prefilter.py:122-141 on an open stream. md is the frame-metadata
\* collaborator: md.fails (the lookup raises) and md.ts (frame_id -> timestamp
\* of the frames it knows). queried tells whether get_frame_metadata was
\* called, ids the frame ids it was called with.
LoadStream(bytes, md) ==
    LET data == msgpack_load(bytes)
    IN  IF data.kind = "err" THEN NoneResult(FALSE)
        ELSE IF data.kind = "int"
        THEN IF data.val = 0 THEN NoneResult(FALSE) ELSE RaiseResult(FALSE)
        ELSE IF data.items = <<>> THEN NoneResult(FALSE)
        ELSE IF ~IsThreeColumns(data.items) THEN RaiseResult(FALSE)
        ELSE IF md.fails
        THEN [RaiseResult(TRUE) EXCEPT !.ids = FrameIdsOf(data.items)]
        ELSE [status |-> "table", rows |-> MergeInner(data.items, md.ts),
              queried |-> TRUE, ids |-> FrameIdsOf(data.items)]

\* load_processed_data(f), prefilter.py:110-141
load_processed_data(fs, f, md) ==
    LET o == OpenSource(fs, f)
    IN  IF o.status = "raise" THEN RaiseResult(FALSE)
        ELSE IF o.status = "str" THEN NoneResult(FALSE)
        ELSE LoadStream(o.bytes, md)

\* the rows of the loaded sources that are not None, in the order of paths
RECURSIVE ConcatLoaded(_)
ConcatLoaded(results) ==
    IF results = <<>> THEN <<>>
    ELSE (IF Head(results).status = "table" THEN Head(results).rows ELSE <<>>)
             \o ConcatLoaded(Tail(results))

\* load_all_processed_data(paths), prefilter.py:143-147: executor.map re-raises
\* the exception of a source when its result is taken; pd.concat of an empty
\* list raises ValueError.
load_all_processed_data(fs, paths, md) ==
    LET results == [i \in 1 .. Len(paths) |->
                        load_processed_data(fs, paths[i], md)]
    IN  IF \E i \in 1 .. Len(paths) : results[i].status = "raise"
        THEN [status |-> "raise", rows |-> <<>>]
        ELSE IF \A i \in 1 .. Len(paths) : results[i].status = "none"
        THEN [status |-> "raise", rows |-> <<>>]
        ELSE [status |-> "table", rows |-> ConcatLoaded(results)]

\* ------------------------------------------------------------- collaborators
\* What a task (find_interactions_in_frame for one frame) can answer
Outcomes == {"empty", "hits", "wide", "raise"}

\* frame_id of the i-th frame (0-based) of camera cam on day d
FrameId(cam, d, i) ==
    70000 + ((d * NumCams + cam) * (MaxFrames + 1)) + i + 1

\* number of frames the tracking database holds for camera cam on day d;
\* shift selects one of the database contents considered
FrameCount(shift, cam, d) == (cam + d + shift) % (MaxFrames + 1)

\* get_frames(cam_id, from_.timestamp(), to_.timestamp()), prefilter.py:188:
\* the frames of the window in capture order, each (timestamp, frame_id,
\* cam_id)
get_frames(shift, cam, d) ==
    [k \in 1 .. FrameCount(shift, cam, d) |->
        <<Timestamp(d) + (k - 1), FrameId(cam, d, k - 1), cam>>]

\* position of a frame within its day, the key of the memoised answers
FramePos(frame) == frame[1] % DaySeconds

\* rows returned by find_interactions_in_frame for a frame, by outcome; each
\* row is (frame_id, bee_id0, bee_id1, features...)
InteractionRows(outcome, frame_id) ==
    IF outcome = "hits"
    THEN << <<frame_id, 1, 2, 10, 20, 0>>, <<frame_id, 300, 1, 11, 21, 1>> >>
    ELSE IF outcome = "wide"
    THEN << <<frame_id, U16 + 5, 2, 10, 20, 0>> >>
    ELSE <<>>

\* get_data_for_frame_id, prefilter.py:59-70: core_data keeps i[:3] of each
\* row, as uint64 (identity on the id range modelled)
get_data_for_frame_id(frame, outcome) ==
    LET r == InteractionRows(outcome, frame[2])
    IN  <<frame[1], frame[2], frame[3],
          [i \in 1 .. Len(r) |-> SubSeq(r[i], 1, 3)]>>

\* -------------------------------------------------------- sweep, pure parts
\* iter_frames_to_filter, prefilter.py:187-192: yield the frames whose
\* enumeration index idx satisfies idx % 3 == 0
RECURSIVE SubsampleFrom(_, _)
SubsampleFrom(all_frames, idx) ==
    IF idx >= Len(all_frames) THEN <<>>
    ELSE (IF idx % Stride = 0 THEN <<all_frames[idx + 1]>> ELSE <<>>)
             \o SubsampleFrom(all_frames, idx + 1)

\* variant: the subsampling starts at index 1 instead of index 0
RECURSIVE SubsampleOffByOne(_, _)
SubsampleOffByOne(all_frames, idx) ==
    IF idx >= Len(all_frames) THEN <<>>
    ELSE (IF idx % Stride = 1 THEN <<all_frames[idx + 1]>> ELSE <<>>)
             \o SubsampleOffByOne(all_frames, idx + 1)

iter_frames_to_filter_OffByOne(all_frames) == SubsampleOffByOne(all_frames, 0)

iter_frames_to_filter(all_frames) == SubsampleFrom(all_frames, 0)

\* dict assignment d[k] = v: a new key is appended, an existing key keeps
\* its position and gets the new value, prefilter.py:207
DictPut(d, k, v) ==
    IF \E i \in 1 .. Len(d) : d[i].key = k
    THEN [i \in 1 .. Len(d) |->
             IF d[i].key = k THEN [key |-> k, value |-> v] ELSE d[i]]
    ELSE Append(d, [key |-> k, value |-> v])

\* pd.concat(all_interaction_results.values()), prefilter.py:223
RECURSIVE ConcatValues(_)
ConcatValues(d) ==
    IF d = <<>> THEN <<>> ELSE Head(d).value \o ConcatValues(Tail(d))

\* astype(np.uint16), prefilter.py:226-227: numpy converts between integer
\* widths by wrapping, without a range check
AsUint16(v) == v % U16

\* prefilter.py:225-229: the rows of data_df after the casts, as tuples
CastRows(rows) ==
    [i \in 1 .. Len(rows) |->
        <<rows[i][1], AsUint16(rows[i][2]), AsUint16(rows[i][3])>>]

\* ------------------------------------------------------------------- state
VARIABLES
    dt_from,          \* argument dt_from (day number), the same in every run
    dt_to,            \* argument dt_to (day number)
    db_shift,         \* which database contents get_frames answers from
    db_outcome,       \* frame position -> answer of its task, once asked
    fs,               \* the target directory: path -> file
    pc,               \* per run: position in prefilter_data_for_timerange
    current_day_start,
    current_day_end,
    cam_id,
    skipped,
    output_filename,
    tasks,            \* per run: the frames handed to executor.map
    consumed,         \* per run: results taken from executor.map so far
    all_interaction_results,
    all_failed_keys,
    visited,          \* per run: windows reached, in order (history)
    processed,        \* per run: windows enumerated and dispatched (history)
    written,          \* per run: archives written, in order (history)
    load_paths,       \* argument of load_all_processed_data
    load_md,          \* the frame-metadata collaborator seen by the loader
    load_each,        \* load_processed_data of each source
    load_result,      \* result of load_all_processed_data
    xy0,              \* pose array of shape (n, 3) handed to the scoring
    xy1,              \* the other pose array, same shape
    score_log,        \* calls of probability_distance_fun so far (history)
    vec_before,       \* the arrays as handed to the batched variant
    vec_result        \* what probability_distance_fun_vectorized returned

sweepVars ==
    <<pc, current_day_start, current_day_end, cam_id, skipped,
      output_filename, tasks, consumed, all_interaction_results,
      all_failed_keys, visited, processed, written>>

worldVars == <<dt_from, dt_to, db_shift>>

loadVars == <<load_paths, load_md, load_each, load_result>>

scoreVars == <<xy0, xy1, score_log, vec_before, vec_result>>

vars == <<worldVars, db_outcome, fs, sweepVars, loadVars, scoreVars>>

\* an archive left in the target directory by an earlier sweep
OldArchive(cam, d) ==
    ZipFileOf(WriteEntryName(dt_to_string(cam, d, d + 1)),
              msgpack_dump(<< <<FrameId(cam, d, 0), 4, 5>> >>))

\* the contents of the target directory before the first run: empty, or the
\* archive of one window of the first day
InitialDirs ==
    {<<>>, (dt_to_string(2, 0, 1) :> OldArchive(2, 0))}

NoMetadata == [fails |-> FALSE, ts |-> <<>>]

IdleResult == [status |-> "idle", rows |-> <<>>]

InitSweep ==
    /\ pc = [p \in Procs |-> "idle"]
    /\ current_day_start = [p \in Procs |-> 0]
    /\ current_day_end = [p \in Procs |-> 0]
    /\ cam_id = [p \in Procs |-> 0]
    /\ skipped = [p \in Procs |-> 0]
    /\ output_filename = [p \in Procs |-> <<>>]
    /\ tasks = [p \in Procs |-> <<>>]
    /\ consumed = [p \in Procs |-> 0]
    /\ all_interaction_results = [p \in Procs |-> <<>>]
    /\ all_failed_keys = [p \in Procs |-> <<>>]
    /\ visited = [p \in Procs |-> <<>>]
    /\ processed = [p \in Procs |-> <<>>]
    /\ written = [p \in Procs |-> <<>>]

InitLoadIdle ==
    /\ load_paths = <<>>
    /\ load_md = NoMetadata
    /\ load_each = <<>>
    /\ load_result = IdleResult

\* no scoring call has been made
NotCalled == [kind |-> "idle", vals |-> <<>>]

InitScoreIdle ==
    /\ xy0 = <<>>
    /\ xy1 = <<>>
    /\ score_log = <<>>
    /\ vec_before = <<>>
    /\ vec_result = NotCalled

Init ==
    /\ dt_from \in Days
    /\ dt_to \in Days
    /\ db_shift \in 0 .. MaxFrames
    /\ db_outcome = <<>>
    /\ fs \in InitialDirs
    /\ InitSweep
    /\ InitLoadIdle
    /\ InitScoreIdle

\* ---------------------------------------------------------------- the sweep
\* a window as recorded in the histories, with the archive path computed
\* for it, prefilter.py:173-180
Window(cam, d, e) ==
    [cam |-> cam, start |-> d, end |-> e, name |-> dt_to_string(cam, d, e)]

Finished(p) == pc[p] \in {"done", "aborted"}

\* prefilter_data_for_timerange is called, prefilter.py:153-169. Run p + 1
\* is started after run p has returned or raised.
Invoke(p) ==
    /\ pc[p] = "idle"
    /\ p > 1 => Finished(p - 1)
    /\ pc' = [pc EXCEPT ![p] = "day"]
    /\ skipped' = [skipped EXCEPT ![p] = 0]
    /\ current_day_start' = [current_day_start EXCEPT ![p] = dt_from]
    /\ UNCHANGED <<worldVars, db_outcome, fs, current_day_end, cam_id,
                   output_filename, tasks, consumed, all_interaction_results,
                   all_failed_keys, visited, processed, written, loadVars,
                   scoreVars>>

\* variant: the loop head never takes the break; at the end of the range
\* the run stays where it is
AdvancingDay_NoBreak(p) ==
    /\ pc[p] = "day"
    /\ current_day_start[p] <= dt_to
    /\ pc' = [pc EXCEPT ![p] = "cam"]
    /\ current_day_end' =
           [current_day_end EXCEPT ![p] = current_day_start[p] + 1]
    /\ cam_id' = [cam_id EXCEPT ![p] = 0]
    /\ UNCHANGED <<worldVars, db_outcome, fs, current_day_start, skipped,
                   output_filename, tasks, consumed, all_interaction_results,
                   all_failed_keys, visited, processed, written, loadVars,
                   scoreVars>>

\* head of the while loop, prefilter.py:170-175
AdvancingDay(p) ==
    /\ pc[p] = "day"
    /\ IF current_day_start[p] > dt_to
       THEN /\ pc' = [pc EXCEPT ![p] = "done"]
            /\ UNCHANGED <<current_day_end, cam_id>>
       ELSE /\ pc' = [pc EXCEPT ![p] = "cam"]
            /\ current_day_end' =
                   [current_day_end EXCEPT ![p] = current_day_start[p] + 1]
            /\ cam_id' = [cam_id EXCEPT ![p] = 0]
    /\ UNCHANGED <<worldVars, db_outcome, fs, current_day_start, skipped,
                   output_filename, tasks, consumed, all_interaction_results,
                   all_failed_keys, visited, processed, written, loadVars,
                   scoreVars>>

\* the camera loop is exhausted, prefilter.py:237-239
NextDay(p) ==
    /\ pc[p] = "cam"
    /\ cam_id[p] = NumCams
    /\ current_day_start' =
           [current_day_start EXCEPT ![p] = current_day_end[p]]
    /\ pc' = [pc EXCEPT ![p] = "day"]
    /\ UNCHANGED <<worldVars, db_outcome, fs, current_day_end, cam_id,
                   skipped, output_filename, tasks, consumed,
                   all_interaction_results, all_failed_keys, visited,
                   processed, written, loadVars, scoreVars>>

\* variant: the skip branch lacks its continue and falls through to the
\* enumeration and dispatch
Skip_FallThrough(p) ==
    /\ pc[p] = "cam"
    /\ cam_id[p] < NumCams
    /\ LET name == dt_to_string(cam_id[p], current_day_start[p],
                                current_day_end[p])
           all_frames == get_frames(db_shift, cam_id[p], current_day_start[p])
       IN  /\ isfile(fs, name)
           /\ output_filename' = [output_filename EXCEPT ![p] = name]
           /\ tasks' = [tasks EXCEPT ![p] = iter_frames_to_filter(all_frames)]
           /\ processed' = [processed EXCEPT ![p] =
                  Append(processed[p],
                         [win |-> Window(cam_id[p], current_day_start[p],
                                         current_day_end[p]),
                          frames |-> all_frames,
                          tasks |-> iter_frames_to_filter(all_frames)])]
    /\ skipped' = [skipped EXCEPT ![p] = skipped[p] + 1]
    /\ all_interaction_results' = [all_interaction_results EXCEPT ![p] = <<>>]
    /\ all_failed_keys' = [all_failed_keys EXCEPT ![p] = <<>>]
    /\ consumed' = [consumed EXCEPT ![p] = 0]
    /\ visited' = [visited EXCEPT ![p] =
           Append(visited[p], Window(cam_id[p], current_day_start[p],
                                     current_day_end[p]))]
    /\ pc' = [pc EXCEPT ![p] = "map"]
    /\ UNCHANGED <<worldVars, db_outcome, fs, current_day_start,
                   current_day_end, cam_id, written, loadVars, scoreVars>>

\* the archive of the window exists, prefilter.py:180-185
Skip(p) ==
    /\ pc[p] = "cam"
    /\ cam_id[p] < NumCams
    /\ LET name == dt_to_string(cam_id[p], current_day_start[p],
                                current_day_end[p])
       IN  /\ isfile(fs, name)
           /\ output_filename' = [output_filename EXCEPT ![p] = name]
    /\ skipped' = [skipped EXCEPT ![p] = skipped[p] + 1]
    /\ visited' = [visited EXCEPT ![p] =
           Append(visited[p], Window(cam_id[p], current_day_start[p],
                                     current_day_end[p]))]
    /\ cam_id' = [cam_id EXCEPT ![p] = cam_id[p] + 1]
    /\ UNCHANGED <<worldVars, db_outcome, fs, pc, current_day_start,
                   current_day_end, tasks, consumed, all_interaction_results,
                   all_failed_keys, processed, written, loadVars, scoreVars>>

\* no archive: enumerate, subsample, dispatch, prefilter.py:180-212.
\* executor.map takes the whole of data_source() and submits every task
\* before the first result is read.
Processing(p) ==
    /\ pc[p] = "cam"
    /\ cam_id[p] < NumCams
    /\ LET name == dt_to_string(cam_id[p], current_day_start[p],
                                current_day_end[p])
           all_frames == get_frames(db_shift, cam_id[p], current_day_start[p])
       IN  /\ ~isfile(fs, name)
           /\ output_filename' = [output_filename EXCEPT ![p] = name]
           /\ tasks' = [tasks EXCEPT ![p] = iter_frames_to_filter(all_frames)]
           /\ processed' = [processed EXCEPT ![p] =
                  Append(processed[p],
                         [win |-> Window(cam_id[p], current_day_start[p],
                                         current_day_end[p]),
                          frames |-> all_frames,
                          tasks |-> iter_frames_to_filter(all_frames)])]
    /\ all_interaction_results' = [all_interaction_results EXCEPT ![p] = <<>>]
    /\ all_failed_keys' = [all_failed_keys EXCEPT ![p] = <<>>]
    /\ consumed' = [consumed EXCEPT ![p] = 0]
    /\ visited' = [visited EXCEPT ![p] =
           Append(visited[p], Window(cam_id[p], current_day_start[p],
                                     current_day_end[p]))]
    /\ pc' = [pc EXCEPT ![p] = "map"]
    /\ UNCHANGED <<worldVars, db_outcome, fs, current_day_start,
                   current_day_end, cam_id, skipped, written, loadVars,
                   scoreVars>>

\* variant: a task without candidates is not recorded
save_data_failed_Drop(failed, results) == failed

\* save_data(results), prefilter.py:200-209
save_data_failed(failed, results) ==
    IF Len(results[4]) = 0
    THEN Append(failed, <<results[1], results[2], results[3]>>)
    ELSE failed

\* variant: the result map is keyed by the camera alone
save_data_results_KeyByCam(d, results) ==
    IF Len(results[4]) = 0
    THEN d
    ELSE DictPut(d, <<results[3]>>, results[4])

save_data_results(d, results) ==
    IF Len(results[4]) = 0
    THEN d
    ELSE DictPut(d, <<results[3], results[1], results[2]>>, results[4])

\* variant: the exception of a task is swallowed
Propagates_Never(outcome) == FALSE

\* process_frame_with_prefilter and the result loop have no try/except: a
\* task that raised re-raises out of the sweep, prefilter.py:149-151, 212
Propagates(outcome) == outcome = "raise"

\* the next result of executor.map is taken, in submission order, and
\* reduced; a task that raised re-raises here, prefilter.py:212-213. The
\* answer of the database for a frame position is fixed when first asked.
Reducing(p) ==
    /\ pc[p] = "map"
    /\ consumed[p] < Len(tasks[p])
    /\ LET frame == tasks[p][consumed[p] + 1]
       IN  \E outcome \in Outcomes :
             /\ FramePos(frame) \in DOMAIN db_outcome
                    => outcome = db_outcome[FramePos(frame)]
             /\ db_outcome' =
                    [q \in (DOMAIN db_outcome) \cup {FramePos(frame)} |->
                        IF q = FramePos(frame) THEN outcome
                        ELSE db_outcome[q]]
             /\ IF Propagates(outcome)
                THEN /\ pc' = [pc EXCEPT ![p] = "aborted"]
                     /\ UNCHANGED <<consumed, all_interaction_results,
                                    all_failed_keys>>
                ELSE /\ consumed' = [consumed EXCEPT ![p] = consumed[p] + 1]
                     /\ all_failed_keys' = [all_failed_keys EXCEPT ![p] =
                            save_data_failed(all_failed_keys[p],
                                get_data_for_frame_id(frame, outcome))]
                     /\ all_interaction_results' =
                            [all_interaction_results EXCEPT ![p] =
                                save_data_results(all_interaction_results[p],
                                    get_data_for_frame_id(frame, outcome))]
                     /\ pc' = pc
    /\ UNCHANGED <<worldVars, fs, current_day_start, current_day_end, cam_id,
                   skipped, output_filename, tasks, visited, processed,
                   written, loadVars, scoreVars>>

\* the result loop of prefilter.py:212-213 run over results in the arrival
\* order given by order[1 .. n]
RECURSIVE ReduceInOrder(_, _, _)
ReduceInOrder(results, order, n) ==
    IF n = 0 THEN [results |-> <<>>, failed |-> <<>>]
    ELSE LET sofar == ReduceInOrder(results, order, n - 1)
         IN  [results |-> save_data_results(sofar.results,
                                            results[order[n]]),
              failed |-> save_data_failed(sofar.failed, results[order[n]])]

\* path of the diagnostic file, prefilter.py:216
FailedName(name) == name \o FailedSuffix

\* variant: the diagnostic file and the archive do not wait for the results
\* that are still outstanding
WriteDiagnostic_Early(p) ==
    /\ pc[p] = "map"
    /\ fs' = IF Len(all_failed_keys[p]) > 0
             THEN WriteFile(fs, FailedName(output_filename[p]),
                            PickleFileOf(all_failed_keys[p]))
             ELSE fs
    /\ pc' = [pc EXCEPT ![p] = "persist"]
    /\ UNCHANGED <<worldVars, db_outcome, current_day_start, current_day_end,
                   cam_id, skipped, output_filename, tasks, consumed,
                   all_interaction_results, all_failed_keys, visited,
                   processed, written, loadVars, scoreVars>>

\* every result is reduced; the failed keys are dumped, prefilter.py:215-218
WriteDiagnostic(p) ==
    /\ pc[p] = "map"
    /\ consumed[p] = Len(tasks[p])
    /\ fs' = IF Len(all_failed_keys[p]) > 0
             THEN WriteFile(fs, FailedName(output_filename[p]),
                            PickleFileOf(all_failed_keys[p]))
             ELSE fs
    /\ pc' = [pc EXCEPT ![p] = "persist"]
    /\ UNCHANGED <<worldVars, db_outcome, current_day_start, current_day_end,
                   cam_id, skipped, output_filename, tasks, consumed,
                   all_interaction_results, all_failed_keys, visited,
                   processed, written, loadVars, scoreVars>>

\* the archive written for the rows raw, prefilter.py:231-233
ArchiveOf(name, raw) == ZipFileOf(WriteEntryName(name), msgpack_dump(raw))

\* prefilter.py:220-235: nothing to write, or concatenate, cast and write
Persisting(p) ==
    /\ pc[p] = "persist"
    /\ IF Len(all_interaction_results[p]) = 0
       THEN UNCHANGED <<fs, written>>
       ELSE LET data_df == ConcatValues(all_interaction_results[p])
                raw_df == CastRows(data_df)
            IN  /\ fs' = WriteFile(fs, output_filename[p],
                                   ArchiveOf(output_filename[p], raw_df))
                /\ written' = [written EXCEPT ![p] =
                       Append(written[p],
                              [name |-> output_filename[p],
                               data_df |-> data_df, raw_df |-> raw_df,
                               file |-> ArchiveOf(output_filename[p],
                                                  raw_df)])]
    /\ cam_id' = [cam_id EXCEPT ![p] = cam_id[p] + 1]
    /\ pc' = [pc EXCEPT ![p] = "cam"]
    /\ UNCHANGED <<worldVars, db_outcome, current_day_start, current_day_end,
                   skipped, output_filename, tasks, consumed,
                   all_interaction_results, all_failed_keys, visited,
                   processed, loadVars, scoreVars>>

Next ==
    \E p \in Procs :
        \/ Invoke(p)
        \/ AdvancingDay(p)
        \/ NextDay(p)
        \/ Skip(p)
        \/ Processing(p)
        \/ Reducing(p)
        \/ WriteDiagnostic(p)
        \/ Persisting(p)

Spec == Init /\ [][Next]_vars

\* the write of prefilter.py:231-233 returns: a run at persist moves on to
\* the next camera. This is the step Persisting(p) takes, told by the
\* position alone.
PersistReturns(p) ==
    /\ pc[p] = "persist"
    /\ pc' = [pc EXCEPT ![p] = "cam"]

\* The interpreter keeps executing a call of the sweep: the loops and
\* calls of prefilter.py:169-239 wait for nothing but the call's own tasks,
\* and a task returns or raises. A caller that has the call's outcome makes
\* the next call. The runs start on a directory that holds an archive, with
\* a database of no, some or many frames per window.
InitFair ==
    /\ Init
    /\ fs # <<>>
    /\ db_shift \in {0, 3, MaxFrames}

SpecFair ==
    /\ InitFair
    /\ [][Next]_vars
    /\ WF_vars(\E p \in Procs :
                   \/ Invoke(p)
                   \/ AdvancingDay(p)
                   \/ NextDay(p)
                   \/ Skip(p)
                   \/ Processing(p)
                   \/ Reducing(p)
                   \/ WriteDiagnostic(p))
    /\ WF_pc(\E p \in Procs : PersistReturns(p))

\* ------------------------------------------------ the loaders on given input
\* rows of a well-formed archive
GoodRows == << <<70001, 1, 2>>, <<70001, 300, 1>>, <<70004, 7, 9>> >>

GoodBytes == msgpack_dump(GoodRows)

\* a payload cut short after k bytes
Truncated(bytes, k) == SubSeq(bytes, 1, k)

\* 0xc1 is the one byte msgpack never uses
CorruptBytes == <<193>> \o GoodBytes

NotesPath == TargetDir \o <<"/", "n", "o", "t", "e", "s">>

RowsPath == TargetDir \o <<"/", "r", "o", "w", "s">> \o DotMsgpack

CutPath == TargetDir \o <<"/", "c", "u", "t">> \o DotMsgpack

\* a directory holding a sound archive, archives whose payload is cut short
\* or empty, an archive without the expected entry, a file that is no zip
\* container, and bare .msgpack files
LoaderDir ==
    LET a == dt_to_string(0, 0, 1)
        b == dt_to_string(1, 0, 1)
        c == dt_to_string(2, 0, 1)
        d == dt_to_string(3, 0, 1)
        e == dt_to_string(0, 1, 2)
    IN  (a :> ArchiveOf(a, GoodRows))
            @@ (b :> ZipFileOf(WriteEntryName(b), Truncated(GoodBytes, 9)))
            @@ (c :> ArchiveOf(c, <<>>))
            @@ (d :> ZipFileOf(LeafName(NotesPath), GoodBytes))
            @@ (e :> RawFileOf(Truncated(GoodBytes, 9)))
            @@ (RowsPath :> RawFileOf(GoodBytes))
            @@ (CutPath :> RawFileOf(Truncated(GoodBytes, 4)))

\* the sources the loader is tried on
SourcePool ==
    {PathSource(q) : q \in (DOMAIN LoaderDir)
                             \cup {dt_to_string(1, 1, 2), NotesPath}}
        \cup {StreamSource(Truncated(GoodBytes, k)) :
                  k \in {0, 1, 9, Len(GoodBytes) - 1, Len(GoodBytes)}}
        \cup {StreamSource(CorruptBytes), StreamSource(msgpack_dump(<<>>)),
              StreamSource(<<0>>), StreamSource(<<5>>),
              StreamSource(GoodBytes \o <<0>>)}

RECURSIVE SourceLists(_)
SourceLists(n) ==
    IF n = 0 THEN {<<>>}
    ELSE SourceLists(n - 1)
             \cup {Append(l, f) : l \in {m \in SourceLists(n - 1) :
                                            Len(m) = n - 1},
                                  f \in SourcePool}

\* get_frame_metadata as the loader may find it: every frame known, only
\* frame 70001 known, or the lookup raising
MetadataChoices ==
    {[fails |-> FALSE, ts |-> (70001 :> 5) @@ (70004 :> 86403)],
     [fails |-> FALSE, ts |-> (70001 :> 5)],
     [fails |-> TRUE, ts |-> <<>>]}

InitLoad ==
    /\ dt_from = 0
    /\ dt_to = 0
    /\ db_shift = 0
    /\ db_outcome = <<>>
    /\ fs = LoaderDir
    /\ InitSweep
    /\ load_paths \in SourceLists(MaxPaths)
    /\ load_md \in MetadataChoices
    /\ load_each = <<>>
    /\ load_result = IdleResult
    /\ InitScoreIdle

\* load_all_processed_data(paths) is called; executor.map runs
\* load_processed_data on every source, prefilter.py:143-147
LoadAll ==
    /\ load_result.status = "idle"
    /\ load_each' = [i \in 1 .. Len(load_paths) |->
                        load_processed_data(fs, load_paths[i], load_md)]
    /\ load_result' = load_all_processed_data(fs, load_paths, load_md)
    /\ UNCHANGED <<worldVars, db_outcome, fs, sweepVars, load_paths, load_md,
                   scoreVars>>

NextLoad == LoadAll

SpecLoad == InitLoad /\ [][NextLoad]_vars

\* ------------------------------------------- two sweeps on one directory
\* the two prefilter_data_for_timerange processes that are started
\* independently of each other on the same target_dir
Racers == {1, 2}

\* prefilter_data_for_timerange is called while another call may be
\* running: nothing in prefilter.py:153-169 takes a lock or looks for one
InvokeConcurrently(p) ==
    /\ p \in Racers
    /\ pc[p] = "idle"
    /\ pc' = [pc EXCEPT ![p] = "day"]
    /\ skipped' = [skipped EXCEPT ![p] = 0]
    /\ current_day_start' = [current_day_start EXCEPT ![p] = dt_from]
    /\ UNCHANGED <<worldVars, db_outcome, fs, current_day_end, cam_id,
                   output_filename, tasks, consumed, all_interaction_results,
                   all_failed_keys, visited, processed, written, loadVars,
                   scoreVars>>

\* the process is killed inside the write of prefilter.py:231-233:
\* zipfile.ZipFile(output_filename, "w") has created the file at the archive
\* path, the payload and the central directory have not been written
InterruptedWrite(p) ==
    /\ pc[p] = "persist"
    /\ Len(all_interaction_results[p]) > 0
    /\ fs' = WriteFile(fs, output_filename[p], RawFileOf(<<>>))
    /\ pc' = [pc EXCEPT ![p] = "killed"]
    /\ UNCHANGED <<worldVars, db_outcome, current_day_start, current_day_end,
                   cam_id, skipped, output_filename, tasks, consumed,
                   all_interaction_results, all_failed_keys, visited,
                   processed, written, loadVars, scoreVars>>

\* both runs are given the first day as their range and an empty directory;
\* the database holds few frames per window
InitRace ==
    /\ dt_from = 0
    /\ dt_to = 0
    /\ db_shift \in {0, 1}
    /\ db_outcome = <<>>
    /\ fs = <<>>
    /\ InitSweep
    /\ InitLoadIdle
    /\ InitScoreIdle

NextRace ==
    \E p \in Racers :
        \/ InvokeConcurrently(p)
        \/ AdvancingDay(p)
        \/ NextDay(p)
        \/ Skip(p)
        \/ Processing(p)
        \/ Reducing(p)
        \/ WriteDiagnostic(p)
        \/ Persisting(p)
        \/ InterruptedWrite(p)

SpecRace == InitRace /\ [][NextRace]_vars

\* ------------------------------------------- the listing of processed days
\* the characters of file names in the order of their code points, by which
\* sorted() compares text
CodeOrder ==
    <<" ", "+", "-", ".", "/">> \o Digits
        \o <<":", "_", "a", "b", "c", "d", "e", "f", "g", "h", "i", "j", "k",
             "l", "m", "n", "o", "p", "q", "r", "s", "t", "u", "v", "w", "x",
             "y", "z">>

Ord(c) == CHOOSE i \in 1 .. Len(CodeOrder) : CodeOrder[i] = c

\* a < b for text a, b
RECURSIVE TextLessFrom(_, _, _)
TextLessFrom(a, b, i) ==
    IF i > Len(a) THEN i <= Len(b)
    ELSE IF i > Len(b) THEN FALSE
    ELSE IF a[i] = b[i] THEN TextLessFrom(a, b, i + 1)
    ELSE Ord(a[i]) < Ord(b[i])

TextLess(a, b) == TextLessFrom(a, b, 1)

\* the sorted sequence seq with the text a put in its place
RECURSIVE InsertSorted(_, _)
InsertSorted(seq, a) ==
    IF seq = <<>> THEN <<a>>
    ELSE IF TextLess(a, Head(seq)) THEN <<a>> \o seq
    ELSE <<Head(seq)>> \o InsertSorted(Tail(seq), a)

\* sorted(list(set(names)))
RECURSIVE sorted(_)
sorted(names) ==
    IF names = {} THEN <<>>
    ELSE LET a == CHOOSE b \in names : TRUE
         IN  InsertSorted(sorted(names \ {a}), a)

\* str.split(sep) for a one-character separator
RECURSIVE SplitFrom(_, _, _, _, _)
SplitFrom(s, sep, i, done, field) ==
    IF i > Len(s) THEN Append(done, field)
    ELSE IF s[i] = sep
         THEN SplitFrom(s, sep, i + 1, Append(done, field), <<>>)
         ELSE SplitFrom(s, sep, i + 1, done, Append(field, s[i]))

Split(s, sep) == SplitFrom(s, sep, 1, <<>>, <<>>)

IsDigit(c) == \E d \in 0 .. 9 : Digits[d + 1] = c

DigitValue(c) == (CHOOSE i \in 1 .. Len(Digits) : Digits[i] = c) - 1

\* int(text); ok is FALSE where int raises ValueError
RECURSIVE DecimalValue(_, _)
DecimalValue(text, n) ==
    IF n = 0 THEN 0
    ELSE 10 * DecimalValue(text, n - 1) + DigitValue(text[n])

ParseInt(text) ==
    IF Len(text) > 0 /\ \A i \in 1 .. Len(text) : IsDigit(text[i])
    THEN [ok |-> TRUE, val |-> DecimalValue(text, Len(text))]
    ELSE [ok |-> FALSE, val |-> 0]

\* the fields of the datetime that is midnight of day d
DateOf(d) ==
    [year |-> 2021, month |-> 1, day |-> d + 1,
     hour |-> 0, minute |-> 0, second |-> 0]

\* datetime.strptime(text, "%Y-%m-%d %H:%M:%S") on zero-padded text; ok is
\* FALSE where it raises ValueError (wrong shape, unconverted data left)
DateShape == <<"9", "9", "9", "9", "-", "9", "9", "-", "9", "9", " ",
               "9", "9", ":", "9", "9", ":", "9", "9">>

strptime(text) ==
    IF /\ Len(text) = Len(DateShape)
       /\ \A i \in 1 .. Len(DateShape) :
              IF DateShape[i] = "9" THEN IsDigit(text[i])
              ELSE text[i] = DateShape[i]
    THEN [ok |-> TRUE,
          val |-> [year |-> DecimalValue(SubSeq(text, 1, 4), 4),
                   month |-> DecimalValue(SubSeq(text, 6, 7), 2),
                   day |-> DecimalValue(SubSeq(text, 9, 10), 2),
                   hour |-> DecimalValue(SubSeq(text, 12, 13), 2),
                   minute |-> DecimalValue(SubSeq(text, 15, 16), 2),
                   second |-> DecimalValue(SubSeq(text, 18, 19), 2)]]
    ELSE [ok |-> FALSE, val |-> DateOf(0)]

PrefilterDot == <<"p", "r", "e", "f", "i", "l", "t", "e", "r", ".">>

\* variant: the pattern is prefilter.* and takes the diagnostic files too
GlobMatches_AnySuffix(base_path, path) ==
    /\ OccursAt(path, base_path \o <<"/">>, 1)
    /\ LeafName(path) = SubSeq(path, Len(base_path) + 2, Len(path))
    /\ OccursAt(LeafName(path), PrefilterDot, 1)

\* glob.glob(base_path + "/prefilter.*.zip") yields path: a file of the
\* directory base_path whose name begins "prefilter." and, after that, ends
\* ".zip", prefilter.py:96
GlobMatches(base_path, path) ==
    /\ OccursAt(path, base_path \o <<"/">>, 1)
    /\ LeafName(path) = SubSeq(path, Len(base_path) + 2, Len(path))
    /\ OccursAt(LeafName(path), PrefilterDot, 1)
    /\ EndsWith(SubSeq(LeafName(path), Len(PrefilterDot) + 1,
                       Len(LeafName(path))), DotZip)

\* the loop body of get_available_processed_days for one file name,
\* prefilter.py:99-107; ok is FALSE where a statement of it raises
ParseArchiveName(filename) ==
    LET leaf_name == LeafName(filename)
        parts == Split(leaf_name, ".")
        infos == IF Len(parts) >= 2 THEN Split(parts[2], "_") ELSE <<>>
        cam == IF Len(infos) >= 1 THEN ParseInt(infos[1]) ELSE ParseInt(<<>>)
        dts == [i \in 1 .. (Len(infos) - 1) |->
                   strptime(Split(infos[i + 1], "+")[1])]
    IN  IF /\ Len(parts) >= 2
           /\ cam.ok
           /\ Len(dts) = 2
           /\ dts[1].ok
           /\ dts[2].ok
        THEN [ok |-> TRUE,
              row |-> [cam_id |-> cam.val, begin |-> dts[1].val,
                       end |-> dts[2].val, filename |-> filename]]
        ELSE [ok |-> FALSE,
              row |-> [cam_id |-> 0, begin |-> DateOf(0), end |-> DateOf(0),
                       filename |-> filename]]

\* get_available_processed_days(base_path), prefilter.py:84-108: the rows
\* in the order of the sorted file names, or the exception of the first
\* name that does not parse
get_available_processed_days(dir, base_path) ==
    LET files == sorted({q \in DOMAIN dir : GlobMatches(base_path, q)})
        parsed == [i \in 1 .. Len(files) |-> ParseArchiveName(files[i])]
    IN  IF \A i \in 1 .. Len(files) : parsed[i].ok
        THEN [status |-> "table",
              rows |-> [i \in 1 .. Len(files) |-> parsed[i].row]]
        ELSE [status |-> "raise", rows |-> <<>>]

\* the archive name dt_to_string gives when the sweep is handed datetimes
\* that carry the UTC offset: str(datetime) then ends "+00:00",
\* prefilter.py:177-179
dt_to_string_aware(cam, dt, dt_end) ==
    LET offset == <<"+", "0", "0", ":", "0", "0">>
    IN  TargetDir \o <<"/">> \o PrefilterDot
            \o IntStr(cam) \o <<"_">> \o DtStr(dt) \o offset
            \o <<"_">> \o DtStr(dt_end) \o offset \o DotZip

\* ---------------------------------------------------------------- scoring
\* Fixed point: lengths in hundredths of the pose unit, rounded down; the
\* weights, the sigmoid's argument and its value in thousandths; an
\* orientation is a whole number of quarter turns, so that its cosine and
\* sine are exact. A pose is <<x, y, orientation>>. Arrays are passed by
\* reference: a function returns its value together with the arrays as
\* they are after the call.
HeadLength == 319          \* 3.19
beta0 == 2043              \* 2.04332357
beta1 == -1569             \* -1.56938987
beta2 == 1922              \* 1.92212738
bias == -11880             \* -11.87978937
hard_min == 684            \* 6.843017734527588
hard_max == 2813           \* 28.133578964233394
One == 1000                \* 1.0 in thousandths

Cos(o) == <<1, 0, -1, 0>>[(o % 4) + 1]

Sin(o) == <<0, 1, 0, -1>>[(o % 4) + 1]

\* the largest r in lo .. hi with r * r <= v
RECURSIVE RootBetween(_, _, _)
RootBetween(v, lo, hi) ==
    IF lo = hi THEN lo
    ELSE LET mid == (lo + hi + 1) \div 2
         IN  IF mid * mid <= v THEN RootBetween(v, mid, hi)
             ELSE RootBetween(v, lo, mid - 1)

\* np.linalg.norm of the vector (dx, dy)
Norm(dx, dy) == RootBetween(dx * dx + dy * dy, 0, 20000)

\* 1000 * e^k for k = -8 .. 8
ExpTable ==
    <<0, 1, 2, 7, 18, 50, 135, 368, 1000, 2718, 7389, 20086, 54598, 148413,
      403429, 1096633, 2980958>>

\* np.exp(z) in thousandths, z in thousandths: the table at the whole
\* numbers, linear in between; beyond +-8 the value at +-8
Exp(z) ==
    IF z <= -8 * One THEN ExpTable[1]
    ELSE IF z >= 8 * One THEN ExpTable[17]
    ELSE LET k == z \div One
             part == z % One
             below == ExpTable[k + 9]
             above == ExpTable[k + 10]
         IN  below + ((above - below) * part) \div One

\* calculate_head_distance(xy0, xy1), prefilter.py:13-24. head0 = xy0[:2]
\* is a view of xy0, so the two += write the head position into xy0 itself;
\* likewise for xy1.
calculate_head_distance(a0, a1) ==
    LET head0 == <<a0[1] + HeadLength * Cos(a0[3]),
                   a0[2] + HeadLength * Sin(a0[3])>>
        head1 == <<a1[1] + HeadLength * Cos(a1[3]),
                   a1[2] + HeadLength * Sin(a1[3])>>
    IN  [value |-> Norm(head0[1] - head1[1], head0[2] - head1[2]),
         xy0 |-> <<head0[1], head0[2], a0[3]>>,
         xy1 |-> <<head1[1], head1[2], a1[3]>>]

\* calculate_angle_dot_distance(r0, r1), prefilter.py:26-32
calculate_angle_dot_distance(r0, r1) ==
    Cos(r0) * Cos(r1) + Sin(r0) * Sin(r1)

\* variant: the two range tests are joined by "and"
probability_distance_fun_And(a0, a1, b0, b1, b2, b, hmin, hmax) ==
    LET distance == Norm(a0[1] - a1[1], a0[2] - a1[2])
    IN  IF distance <= hmin /\ distance >= hmax
        THEN [value |-> 0, xy0 |-> a0, xy1 |-> a1]
        ELSE LET head == calculate_head_distance(a0, a1)
                 angle_dot_distance ==
                     calculate_angle_dot_distance(a0[3], a1[3])
                 z == (distance * b0 + head.value * b1) \div 100
                          + angle_dot_distance * b2 + b
             IN  [value |-> (One * One) \div (One + Exp(0 - z)),
                  xy0 |-> head.xy0, xy1 |-> head.xy1]

\* probability_distance_fun_(xy0, xy1, beta0, beta1, beta2, bias, hard_min,
\* hard_max), prefilter.py:34-46
probability_distance_fun_(a0, a1, b0, b1, b2, b, hmin, hmax) ==
    LET distance == Norm(a0[1] - a1[1], a0[2] - a1[2])
    IN  IF distance <= hmin \/ distance >= hmax
        THEN [value |-> 0, xy0 |-> a0, xy1 |-> a1]
        ELSE LET head == calculate_head_distance(a0, a1)
                 angle_dot_distance ==
                     calculate_angle_dot_distance(a0[3], a1[3])
                 z == (distance * b0 + head.value * b1) \div 100
                          + angle_dot_distance * b2 + b
             IN  [value |-> (One * One) \div (One + Exp(0 - z)),
                  xy0 |-> head.xy0, xy1 |-> head.xy1]

\* probability_distance_fun(xy0, xy1), prefilter.py:72-75
probability_distance_fun(a0, a1) ==
    probability_distance_fun_(a0, a1, beta0, beta1, beta2, bias,
                              hard_min, hard_max)

\* the loop of probability_distance_fun_vectorized_ from row i on: row i of
\* both arrays is handed to the scoring as a view, prefilter.py:50-51
RECURSIVE ScoreRows(_, _, _, _)
ScoreRows(a0, a1, out, i) ==
    IF i > Len(a0) THEN [out |-> out, xy0 |-> a0, xy1 |-> a1]
    ELSE LET r == probability_distance_fun(a0[i], a1[i])
         IN  ScoreRows([a0 EXCEPT ![i] = r.xy0], [a1 EXCEPT ![i] = r.xy1],
                       [out EXCEPT ![i] = r.value], i + 1)

\* what a Python function returns without a return statement
None == [kind |-> "none", vals |-> <<>>]

\* probability_distance_fun_vectorized_(xy0, xy1, out), prefilter.py:48-52:
\* the parameter out is rebound to a new local array, the loop fills that
\* array, and the function ends without a return statement
probability_distance_fun_vectorized_(a0, a1, out) ==
    LET local == [i \in 1 .. Len(a0) |-> 0]
        run == ScoreRows(a0, a1, local, 1)
    IN  [value |-> None, xy0 |-> run.xy0, xy1 |-> run.xy1, out |-> out]

\* probability_distance_fun_vectorized(xy0, xy1), prefilter.py:54-57:
\* returns what the inner function returns
probability_distance_fun_vectorized(a0, a1) ==
    LET out == [i \in 1 .. Len(a0) |-> 0]
    IN  probability_distance_fun_vectorized_(a0, a1, out)

\* the poses the scoring is tried on: one bee at the origin, the other on
\* the x axis nearer than hard_min, within range, and beyond hard_max
Poses0 == {<<0, 0, o>> : o \in {0, 1}}

Poses1 == {<<x, 0, o>> : x \in {500, 1000, 3000}, o \in {0, 2}}

InitScore ==
    /\ dt_from = 0
    /\ dt_to = 0
    /\ db_shift = 0
    /\ db_outcome = <<>>
    /\ fs = <<>>
    /\ InitSweep
    /\ InitLoadIdle
    /\ \E n \in 1 .. MaxBatch :
           /\ xy0 \in [1 .. n -> Poses0]
           /\ xy1 \in [1 .. n -> Poses1]
    /\ score_log = <<>>
    /\ vec_before = <<>>
    /\ vec_result = NotCalled

\* the caller scores row i of its arrays: probability_distance_fun(xy0[i],
\* xy1[i]), up to twice before the batched call
ScoreCall(i) ==
    /\ vec_result = NotCalled
    /\ Len(score_log) < 2
    /\ i \in 1 .. Len(xy0)
    /\ LET r == probability_distance_fun(xy0[i], xy1[i])
       IN  /\ xy0' = [xy0 EXCEPT ![i] = r.xy0]
           /\ xy1' = [xy1 EXCEPT ![i] = r.xy1]
           /\ score_log' = Append(score_log,
                  [row |-> i, before0 |-> xy0[i], before1 |-> xy1[i],
                   after0 |-> r.xy0, after1 |-> r.xy1, value |-> r.value])
    /\ UNCHANGED <<worldVars, db_outcome, fs, sweepVars, loadVars,
                   vec_before, vec_result>>

\* the caller hands both arrays to probability_distance_fun_vectorized
VectorizedCall ==
    /\ vec_result = NotCalled
    /\ LET r == probability_distance_fun_vectorized(xy0, xy1)
       IN  /\ vec_before' = <<xy0, xy1>>
           /\ vec_result' = r.value
           /\ xy0' = r.xy0
           /\ xy1' = r.xy1
    /\ UNCHANGED <<worldVars, db_outcome, fs, sweepVars, loadVars, score_log>>

NextScore ==
    \/ \E i \in 1 .. MaxBatch : ScoreCall(i)
    \/ VectorizedCall

SpecScore == InitScore /\ [][NextScore]_vars

\* ================================================================== claims
Last(q) == q[Len(q)]

\* path of the archive of a window
ArchiveName(w) == w.name

\* the windows run p enumerated and dispatched
ProcessedWindows(p) == {processed[p][i].win : i \in 1 .. Len(processed[p])}

\* run p has finished handling a window it processed (not skipped); the
\* per-window variables still hold that window's values
JustPersisted(p) ==
    /\ pc[p] = "cam"
    /\ processed[p] # <<>>
    /\ Last(visited[p]) = Last(processed[p]).win

\* C1 as stated: after a complete first run, a second run over the same range
\* is a full skip: it writes no archive, enumerates no frames and dispatches
\* no task.
C1_SecondRunFullSkip ==
    pc[1] = "done" => (written[2] = <<>> /\ processed[2] = <<>>)

\* C1 amended: a second run over the same range, with the collaborators
\* answering as before, writes no archive; it skips exactly the windows whose
\* archive exists, and it enumerates and dispatches again, with the same
\* frames and tasks, the windows it reaches that have no archive.
C1_SecondRunWritesNothing ==
    Finished(1) =>
        /\ written[2] = <<>>
        /\ \A i \in 1 .. Len(processed[2]) :
              /\ ArchiveName(processed[2][i].win) \notin DOMAIN fs
              /\ \E j \in 1 .. Len(processed[1]) :
                    processed[1][j] = processed[2][i]
        /\ skipped[2] = Cardinality({i \in 1 .. Len(visited[2]) :
                                        ArchiveName(visited[2][i]) \in DOMAIN fs})
        /\ Len(visited[2]) = skipped[2] + Len(processed[2])
        /\ Finished(2) =>
              ProcessedWindows(2) =
                  {w \in ProcessedWindows(1) : ArchiveName(w) \notin DOMAIN fs}

\* C1 witness: a finished second run that skipped archived windows and
\* processed again windows left without an archive
C1_Witness ==
    /\ pc[1] = "done"
    /\ pc[2] = "done"
    /\ written[1] # <<>>
    /\ skipped[2] > 0
    /\ processed[2] # <<>>

\* C2: a window whose archive exists when the sweep reaches it is skipped:
\* the skipped total grows by one, nothing is enumerated or dispatched and no
\* file changes; an archive is written only at a path that holds no file, at
\* most once per sweep, and the write changes no other file.
C2_SkipTouchesNothing ==
    [][\A p \in Procs :
          /\ ( /\ Len(visited'[p]) > Len(visited[p])
               /\ dt_to_string(cam_id[p], current_day_start[p],
                               current_day_end[p]) \in DOMAIN fs )
                => /\ skipped'[p] = skipped[p] + 1
                   /\ fs' = fs
                   /\ processed' = processed
                   /\ tasks' = tasks
                   /\ written' = written
                   /\ pc'[p] = "cam"
          /\ Len(written'[p]) > Len(written[p])
                => /\ Last(written'[p]).name \notin DOMAIN fs
                   /\ \A i \in 1 .. Len(written[p]) :
                         written[p][i].name # Last(written'[p]).name
                   /\ \A q \in DOMAIN fs : fs'[q] = fs[q]
      ]_vars

\* C2 witness: a sweep that has skipped an existing archive and written one
C2_Witness ==
    \E p \in Procs :
        /\ skipped[p] > 0
        /\ written[p] # <<>>
        /\ Len(visited[p]) > skipped[p] + 1

\* C3 as stated: only windows starting on a day in [dt_from, dt_to) are
\* visited, for cameras 0..3.
C3_HalfOpenRange ==
    \A p \in Procs : \A i \in 1 .. Len(visited[p]) :
        /\ visited[p][i].cam \in 0 .. 3
        /\ visited[p][i].start >= dt_from
        /\ visited[p][i].start < dt_to
        /\ visited[p][i].end = visited[p][i].start + 1

\* C4: when a window that is not skipped has been dispatched, with N frames
\* enumerated, the tasks submitted are exactly the frames at enumeration
\* indices 0, 3, 6, ..., in order, and there are ceil(N/3) of them, each the
\* frame's (timestamp, frame_id, cam_id).
C4_EveryThirdFrame ==
    \A p \in Procs :
        (pc[p] = "map" /\ consumed[p] = 0) =>
            LET e == Last(processed[p])
            IN  /\ e.win = Last(visited[p])
                /\ e.frames = get_frames(db_shift, e.win.cam, e.win.start)
                /\ tasks[p] = e.tasks
                /\ Len(tasks[p]) = (Len(e.frames) + 2) \div 3
                /\ \A k \in 1 .. Len(tasks[p]) :
                      tasks[p][k] = e.frames[3 * (k - 1) + 1]

\* C4 witness: a window of 7 frames dispatched as 3 tasks
C4_Witness ==
    \E p \in Procs :
        /\ pc[p] = "map"
        /\ consumed[p] = 0
        /\ Len(Last(processed[p]).frames) = 7
        /\ Len(tasks[p]) = 3

\* C5 as stated: every processed window without any candidate, the window
\* with an empty enumeration included, leaves a non-empty diagnostic file and
\* no archive.
C5_AlwaysDiagnostic ==
    \A p \in Procs :
        (JustPersisted(p) /\ all_interaction_results[p] = <<>>)
            => /\ FailedName(output_filename[p]) \in DOMAIN fs
               /\ fs[FailedName(output_filename[p])].keys # <<>>
               /\ output_filename[p] \notin DOMAIN fs

\* C5 amended: a window with at least one task, all of whose tasks report no
\* candidate, leaves a diagnostic file listing every task and no archive; a
\* window whose enumeration is empty leaves neither file.
C5_DiagnosticIffTasks ==
    \A p \in Procs :
        (JustPersisted(p) /\ all_interaction_results[p] = <<>>)
            => /\ output_filename[p] \notin DOMAIN fs
               /\ IF tasks[p] # <<>>
                  THEN /\ FailedName(output_filename[p]) \in DOMAIN fs
                       /\ fs[FailedName(output_filename[p])].kind = "pickle"
                       /\ fs[FailedName(output_filename[p])].keys = tasks[p]
                  ELSE FailedName(output_filename[p]) \notin DOMAIN fs

\* C5 witness: a window of two tasks, both without candidates, is finished
C5_Witness ==
    \E p \in Procs :
        /\ JustPersisted(p)
        /\ all_interaction_results[p] = <<>>
        /\ Len(tasks[p]) >= 2

\* C6: the result of a raising task is never reduced; when a task raises the
\* sweep ends there, the failing window has neither archive nor diagnostic
\* file, the archives written for earlier windows are as written; a retry
\* over the same range reaches the same windows, skips exactly those that have
\* an archive, processes the failed window again and writes nothing.
C6_AbortKeepsEarlierWindows ==
    \A p \in Procs :
        /\ \A k \in 1 .. consumed[p] :
              db_outcome[FramePos(tasks[p][k])] # "raise"
        /\ pc[p] = "aborted"
              => /\ consumed[p] < Len(tasks[p])
                 /\ db_outcome[FramePos(tasks[p][consumed[p] + 1])] = "raise"
                 /\ output_filename[p] \notin DOMAIN fs
                 /\ FailedName(output_filename[p]) \notin DOMAIN fs
                 /\ \A i \in 1 .. Len(written[p]) :
                       /\ written[p][i].name \in DOMAIN fs
                       /\ fs[written[p][i].name] = written[p][i].file
        /\ (p > 1 /\ pc[p - 1] = "aborted" /\ Finished(p))
              => /\ pc[p] = "aborted"
                 /\ visited[p] = visited[p - 1]
                 /\ written[p] = <<>>
                 /\ \A i \in 1 .. Len(visited[p]) :
                       (visited[p][i] \notin ProcessedWindows(p))
                           <=> (ArchiveName(visited[p][i]) \in DOMAIN fs)
                 /\ Last(processed[p]).win = Last(visited[p - 1])

\* C6 witness: a run aborted after writing archives, and its retry aborted at
\* the same window after skipping them and processing again a window that had
\* been left without an archive
C6_Witness ==
    /\ pc[1] = "aborted"
    /\ pc[2] = "aborted"
    /\ written[1] # <<>>
    /\ skipped[2] > 0
    /\ Len(processed[2]) >= 2

\* C7 as stated: no archive is written from a table in which a bee id
\* exceeds 65535, so what is stored is never a value taken modulo 2^16.
C7_NoArchiveBeyondUint16 ==
    \A p \in Procs : \A i \in 1 .. Len(written[p]) :
        \A j \in 1 .. Len(written[p][i].data_df) :
            /\ written[p][i].data_df[j][2] <= 65535
            /\ written[p][i].data_df[j][3] <= 65535
            /\ written[p][i].raw_df[j] = written[p][i].data_df[j]

\* a frame-metadata collaborator that knows every frame of the rows
FullMetadata(rows) ==
    [fails |-> FALSE, ts |-> [f \in FrameIdsOf(rows) |-> 0]]

\* C8: the archive the sweep has just written holds the entry the loader
\* looks for, and load_processed_data of its path gives back the rows
\* written: as many, in the same order, with the same frame_id, bee_id0 and
\* bee_id1 (the metadata columns set aside).
C8_RoundTrip ==
    \A p \in Procs :
        (JustPersisted(p) /\ all_interaction_results[p] # <<>>) =>
            LET w == Last(written[p])
                r == load_processed_data(fs, PathSource(w.name),
                                         FullMetadata(w.raw_df))
            IN  /\ w.name = output_filename[p]
                /\ w.raw_df # <<>>
                /\ ReadEntryName(w.name) \in DOMAIN fs[w.name].entries
                /\ r.status = "table"
                /\ Len(r.rows) = Len(w.raw_df)
                /\ \A j \in 1 .. Len(w.raw_df) :
                      SubSeq(r.rows[j], 1, 3) = w.raw_df[j]

\* C8 witness: an archive of the rows of three tasks, bee ids of one and of
\* two bytes among them
C8_Witness ==
    \E p \in Procs :
        /\ JustPersisted(p)
        /\ written[p] # <<>>
        /\ Last(written[p]).name = output_filename[p]
        /\ Len(Last(written[p]).raw_df) >= 5
        /\ \E j \in 1 .. Len(Last(written[p]).raw_df) :
              Last(written[p]).raw_df[j][2] = 300

\* the payload of a source does not deserialize
PayloadFails(f) ==
    LET o == OpenSource(fs, f)
    IN  \/ o.status = "str"
        \/ o.status = "stream" /\ msgpack_load(o.bytes).kind = "err"

\* the payload of a source deserializes to an empty sequence
PayloadEmpty(f) ==
    LET o == OpenSource(fs, f)
    IN  /\ o.status = "stream"
        /\ msgpack_load(o.bytes).kind = "arr"
        /\ msgpack_load(o.bytes).items = <<>>

\* C9: load_processed_data of a source whose payload does not deserialize,
\* or deserializes to an empty sequence, is None (no exception, no table)
\* and the frame metadata is not queried.
C9_NoneOnBadOrEmptyPayload ==
    \A i \in 1 .. Len(load_each) :
        (PayloadFails(load_paths[i]) \/ PayloadEmpty(load_paths[i]))
            => /\ load_each[i].status = "none"
               /\ ~load_each[i].queried

\* C9 witness: an archive with a truncated payload and a source with an
\* empty payload have been loaded
C9_Witness ==
    /\ Len(load_each) = 2
    /\ load_paths[1].type = "str"
    /\ EndsWith(load_paths[1].path, DotZip)
    /\ PayloadFails(load_paths[1])
    /\ PayloadEmpty(load_paths[2])

\* C10 as stated: whenever every source yields None or a table, the call
\* returns one combined table of the rows of the sources that are not None,
\* a list of which every source yields None included.
C10_NoneSourcesIsolated ==
    ( /\ load_result.status # "idle"
      /\ load_paths # <<>>
      /\ \A i \in 1 .. Len(load_each) :
            load_each[i].status \in {"none", "table"} )
        => /\ load_result.status = "table"
           /\ load_result.rows = ConcatLoaded(load_each)

\* window w was skipped by run p: reached, but not enumerated
SkippedBy(p, w) ==
    /\ \E i \in 1 .. Len(visited[p]) : visited[p][i] = w
    /\ w \notin ProcessedWindows(p)

\* C11: with two sweeps running on one directory the existence check at the
\* entry of a window is the only guard. A run that reaches a window skips it
\* exactly if some file, of whatever content, is at the archive path at that
\* moment; a run that passed the check writes its archive whatever has
\* appeared at the path since, replacing it.
C11_OnlyPreCheckGuards ==
    [][\A p \in Racers :
          /\ Len(visited'[p]) > Len(visited[p]) =>
                 ((Last(visited'[p]).name \in DOMAIN fs)
                      <=> (skipped'[p] = skipped[p] + 1
                               /\ processed'[p] = processed[p]
                               /\ fs' = fs))
          /\ Len(written'[p]) > Len(written[p]) =>
                 /\ DOMAIN fs' = (DOMAIN fs) \cup {Last(written'[p]).name}
                 /\ fs'[Last(written'[p]).name] = Last(written'[p]).file
                 /\ \A q \in DOMAIN fs :
                        q # Last(written'[p]).name => fs'[q] = fs[q]]_vars

\* both runs passed the check of one window, processed it and wrote its
\* archive; and one run skipped a window whose archive path holds what the
\* killed write of the other run left there
C11_Witness ==
    /\ \E i \in 1 .. Len(written[1]), j \in 1 .. Len(written[2]) :
           written[1][i].name = written[2][j].name
    /\ \E p \in Racers, q \in Racers : \E i \in 1 .. Len(visited[q]) :
           /\ pc[p] = "killed"
           /\ SkippedBy(q, visited[q][i])
           /\ visited[q][i].name = output_filename[p]
           /\ fs[output_filename[p]].kind = "raw"

\* run p has returned or raised and no later run has started
RunEnded(p) == Finished(p) /\ (p = NumRuns \/ pc[p + 1] = "idle")

AllWindows == {Window(c, d, d + 1) : c \in Cams, d \in Days}

\* the row the listing owes to the archive of window w
ExpectedRow(w) ==
    [cam_id |-> w.cam, begin |-> DateOf(w.start), end |-> DateOf(w.end),
     filename |-> w.name]

\* C12: on the directory a sweep leaves behind, get_available_processed_days
\* returns one row per archive file and no other row, each row carrying the
\* camera, start and end of the archive's window; the rows are in the order
\* of the file names (camera first, then start); diagnostic .failed files
\* give no row; an archive name that carries "+00:00" after both
\* timestamps matches the pattern and parses to the begin and end it has
\* without them.
C12_ListingMatchesWindows ==
    \A p \in Procs :
        RunEnded(p) =>
            LET listing == get_available_processed_days(fs, TargetDir)
                archives == {w \in AllWindows : w.name \in DOMAIN fs}
                n == Len(listing.rows)
                aware == dt_to_string_aware(0, 0, 1)
            IN  /\ listing.status = "table"
                /\ n = Cardinality(archives)
                /\ n = Cardinality({q \in DOMAIN fs : fs[q].kind = "zip"})
                /\ {listing.rows[i] : i \in 1 .. n}
                       = {ExpectedRow(w) : w \in archives}
                /\ \A i \in 1 .. Len(written[p]) :
                       \E k \in 1 .. n :
                           listing.rows[k].filename = written[p][i].name
                /\ \A i \in 1 .. n, j \in 1 .. n :
                       i < j =>
                           \/ listing.rows[i].cam_id < listing.rows[j].cam_id
                           \/ /\ listing.rows[i].cam_id
                                     = listing.rows[j].cam_id
                              /\ listing.rows[i].begin.day
                                     < listing.rows[j].begin.day
                /\ \A k \in 1 .. n :
                       ~EndsWith(listing.rows[k].filename, FailedSuffix)
                /\ GlobMatches(TargetDir, aware)
                /\ ParseArchiveName(aware).ok
                /\ ParseArchiveName(aware).row =
                       [cam_id |-> 0, begin |-> DateOf(0), end |-> DateOf(1),
                        filename |-> aware]

\* a run has ended that wrote two archives and a diagnostic file; the
\* listing has a row for each archive
C12_Witness ==
    /\ RunEnded(1)
    /\ Len(written[1]) >= 2
    /\ \E q \in DOMAIN fs : EndsWith(q, FailedSuffix)
    /\ Len(get_available_processed_days(fs, TargetDir).rows) >= 2

\* 1 / (1 + e^(-z)) in thousandths
Sigmoid(z) == (One * One) \div (One + Exp(0 - z))

\* the centroid distance of two poses
CentroidDistance(p0, p1) == Norm(p0[1] - p1[1], p0[2] - p1[2])

OutOfRange(p0, p1) ==
    \/ CentroidDistance(p0, p1) <= hard_min
    \/ CentroidDistance(p0, p1) >= hard_max

\* w0 * centroidDistance + w1 * headDistance + w2 * headingAlignment + bias
\* of two poses, the head being HeadLength ahead of the centroid
WeightedSum(p0, p1) ==
    LET hx0 == p0[1] + HeadLength * Cos(p0[3])
        hy0 == p0[2] + HeadLength * Sin(p0[3])
        hx1 == p1[1] + HeadLength * Cos(p1[3])
        hy1 == p1[2] + HeadLength * Sin(p1[3])
    IN  (beta0 * CentroidDistance(p0, p1)
            + beta1 * Norm(hx0 - hx1, hy0 - hy1)) \div 100
          + beta2 * Cos(p0[3] - p1[3]) + bias

\* C13: a call of the score on poses whose centroid distance is <= hard_min
\* or >= hard_max returns 0, whatever the two orientations are, and leaves
\* both pose arrays as they were (the head positions are not computed);
\* any other call returns the sigmoid of the weighted sum of centroid
\* distance, head distance and heading alignment; every value is in [0, 1].
C13_RangeGateThenSigmoid ==
    \A k \in 1 .. Len(score_log) :
        LET c == score_log[k]
        IN  /\ c.value \in 0 .. One
            /\ IF OutOfRange(c.before0, c.before1)
               THEN /\ c.value = 0
                    /\ c.after0 = c.before0
                    /\ c.after1 = c.before1
                    /\ \A o0 \in 0 .. 3, o1 \in 0 .. 3 :
                           probability_distance_fun(
                               <<c.before0[1], c.before0[2], o0>>,
                               <<c.before1[1], c.before1[2], o1>>).value = 0
               ELSE c.value = Sigmoid(WeightedSum(c.before0, c.before1))

\* one call was gated to 0 by the range test and another returned a
\* sigmoid value strictly between 0 and 1
C13_Witness ==
    \E k \in 1 .. Len(score_log), j \in 1 .. Len(score_log) :
        /\ OutOfRange(score_log[k].before0, score_log[k].before1)
        /\ score_log[k].value = 0
        /\ ~OutOfRange(score_log[j].before0, score_log[j].before1)
        /\ score_log[j].value > 0
        /\ score_log[j].value < One

\* C14 as stated: probability_distance_fun_vectorized returns a sequence of
\* as many values as the arrays have rows, the i-th being the score of the
\* i-th rows as they were handed in.
C14_BatchReturnsScores ==
    vec_result # NotCalled =>
        /\ vec_result.kind = "array"
        /\ Len(vec_result.vals) = Len(vec_before[1])
        /\ \A i \in 1 .. Len(vec_before[1]) :
               vec_result.vals[i] =
                   probability_distance_fun(vec_before[1][i],
                                            vec_before[2][i]).value

\* C17 as stated: a call of the score leaves both pose arrays as they were,
\* and a second call on the same two arrays right after the first returns
\* the value the first returned.
C17_ScoringKeepsInputs ==
    \A k \in 1 .. Len(score_log) :
        /\ score_log[k].after0 = score_log[k].before0
        /\ score_log[k].after1 = score_log[k].before1
        /\ (k > 1 /\ score_log[k].row = score_log[k - 1].row)
               => score_log[k].value = score_log[k - 1].value

\* what the tasks of the window just handled by run p returned, in
\* submission order
WindowResults(p) ==
    LET rec == Last(processed[p])
    IN  [k \in 1 .. Len(rec.tasks) |->
            get_data_for_frame_id(rec.tasks[k],
                                  db_outcome[FramePos(rec.tasks[k])])]

\* the rows of the non-empty tables among results[1 .. n], in order
RECURSIVE RowsOfTables(_, _)
RowsOfTables(results, n) ==
    IF n = 0 THEN <<>>
    ELSE RowsOfTables(results, n - 1) \o results[n][4]

\* (timestamp, frame_id, cam_id) of the tasks among results[1 .. n] that
\* returned an empty table, in order
RECURSIVE KeysOfEmpty(_, _)
KeysOfEmpty(results, n) ==
    IF n = 0 THEN <<>>
    ELSE IF Len(results[n][4]) = 0
         THEN Append(KeysOfEmpty(results, n - 1),
                     <<results[n][1], results[n][2], results[n][3]>>)
         ELSE KeysOfEmpty(results, n - 1)

\* C15 as stated: when a window has been handled (not skipped) and some
\* task returned a non-empty table, the archive of the window holds exactly
\* the rows of the non-empty tables; if some task returned an empty table
\* the diagnostic file lists exactly those tasks, and the archive is
\* written all the same; the archive is written exactly if the result map
\* is not empty.
C15_ArchiveHoldsAllRows ==
    \A p \in Procs :
        JustPersisted(p) =>
            LET name == Last(processed[p]).win.name
                results == WindowResults(p)
                rows == RowsOfTables(results, Len(results))
                failed == KeysOfEmpty(results, Len(results))
                wrote == /\ written[p] # <<>>
                         /\ Last(written[p]).name = name
            IN  /\ rows # <<>> =>
                       /\ wrote
                       /\ name \in DOMAIN fs
                       /\ fs[name] = ArchiveOf(name, rows)
                /\ failed # <<>> =>
                       /\ FailedName(name) \in DOMAIN fs
                       /\ fs[FailedName(name)] = PickleFileOf(failed)
                /\ wrote <=> all_interaction_results[p] # <<>>

\* how often row r occurs in the table rows
Occurrences(rows, r) == Cardinality({i \in 1 .. Len(rows) : rows[i] = r})

SameRowsAsBag(a, b) ==
    /\ Len(a) = Len(b)
    /\ \A i \in 1 .. Len(a) : Occurrences(a, a[i]) = Occurrences(b, a[i])

\* C16: when every result of a window has been reduced, reducing the same
\* results in any other arrival order gives the same result map (the same
\* table under the same key (cam_id, timestamp, frame_id)), the same set of
\* failed keys and the same rows, counted with multiplicity; the map has
\* one entry per task that returned a non-empty table, so no table was
\* overwritten.
C16_ReductionOrderIndependent ==
    \A p \in Procs :
        pc[p] = "persist" =>
            LET results == WindowResults(p)
                n == Len(results)
                map == all_interaction_results[p]
            IN  /\ Len(map) = Cardinality({k \in 1 .. n :
                                               Len(results[k][4]) > 0})
                /\ \A order \in Permutations(1 .. n) :
                       LET other == ReduceInOrder(results, order, n)
                       IN  /\ {<<other.results[i].key, other.results[i].value>> :
                                   i \in 1 .. Len(other.results)}
                                = {<<map[i].key, map[i].value>> :
                                       i \in 1 .. Len(map)}
                           /\ {other.failed[i] : i \in 1 .. Len(other.failed)}
                                = {all_failed_keys[p][i] :
                                       i \in 1 .. Len(all_failed_keys[p])}
                           /\ SameRowsAsBag(
                                  CastRows(ConcatValues(other.results)),
                                  CastRows(ConcatValues(map)))

\* a window of three tasks has been reduced: two tables in the result map,
\* one failed key
C16_Witness ==
    \E p \in Procs :
        /\ pc[p] = "persist"
        /\ Len(tasks[p]) >= 3
        /\ Len(all_interaction_results[p]) >= 2
        /\ Len(all_failed_keys[p]) >= 1

\* the row sequence the payload of a source deserializes to; empty if there
\* is none
PayloadRows(f) ==
    LET o == OpenSource(fs, f)
    IN  IF o.status = "stream" /\ msgpack_load(o.bytes).kind = "arr"
        THEN msgpack_load(o.bytes).items
        ELSE <<>>

\* the inner join of rows with the metadata md: the rows whose frame_id md
\* knows, each followed by the frame's timestamp and datetime
Joined(rows, md) ==
    LET known == SelectSeq(rows, LAMBDA r : r[1] \in DOMAIN md.ts)
    IN  [j \in 1 .. Len(known) |->
            known[j] \o <<md.ts[known[j][1]],
                          md.ts[known[j][1]] \div DaySeconds,
                          md.ts[known[j][1]] % DaySeconds>>]

\* C18: load_processed_data of a source whose payload deserializes to a
\* non-empty sequence of rows calls the metadata lookup with the distinct
\* frame ids of the rows; if the lookup raises, so does the loader;
\* otherwise the result is the table of the rows whose frame_id the
\* metadata knows, in order, each with the frame's timestamp and datetime,
\* the other rows being left out.
C18_InnerJoinWithMetadata ==
    \A i \in 1 .. Len(load_each) :
        LET rows == PayloadRows(load_paths[i])
        IN  (rows # <<>> /\ IsThreeColumns(rows)) =>
                /\ load_each[i].queried
                /\ load_each[i].ids = {rows[k][1] : k \in 1 .. Len(rows)}
                /\ IF load_md.fails
                   THEN load_each[i].status = "raise"
                   ELSE /\ load_each[i].status = "table"
                        /\ load_each[i].rows = Joined(rows, load_md)

\* an archive of three rows has been loaded with metadata that knows the
\* frame of two of them: the table has those two rows
C18_Witness ==
    \E i \in 1 .. Len(load_each) :
        /\ load_paths[i].type = "str"
        /\ Len(PayloadRows(load_paths[i])) = 3
        /\ load_each[i].status = "table"
        /\ Len(load_each[i].rows) = 2
        /\ load_each[i].rows[1][4] = load_md.ts[load_each[i].rows[1][1]]

\* C19: at every step of a sweep that writes the archive of a window, every
\* task dispatched for that window has been reduced (none is outstanding,
\* and the result map and the failed list account for all of them), and if
\* the failed list is not empty the window's diagnostic file is already in
\* the directory, listing it.
C19_ArchiveAfterAllTasks ==
    [][\A p \in Procs :
          Len(written'[p]) > Len(written[p]) =>
              /\ Last(written'[p]).name = output_filename[p]
              /\ Last(processed[p]).win.name = output_filename[p]
              /\ tasks[p] = Last(processed[p]).tasks
              /\ consumed[p] = Len(tasks[p])
              /\ Len(all_interaction_results[p]) + Len(all_failed_keys[p])
                     = Len(tasks[p])
              /\ all_failed_keys[p] # <<>> =>
                     /\ FailedName(output_filename[p]) \in DOMAIN fs
                     /\ fs[FailedName(output_filename[p])]
                            = PickleFileOf(all_failed_keys[p])]_vars

\* an archive has just been written for a window of three tasks of which
\* one gave no candidates; the diagnostic file is there too
C19_Witness ==
    \E p \in Procs :
        /\ JustPersisted(p)
        /\ written[p] # <<>>
        /\ Last(written[p]).name = output_filename[p]
        /\ Len(tasks[p]) >= 3
        /\ all_failed_keys[p] # <<>>
        /\ FailedName(output_filename[p]) \in DOMAIN fs

\* the steps of the position of a run that the loop structure allows
SweepSteps ==
    {<<"idle", "day">>, <<"day", "cam">>, <<"day", "done">>,
     <<"cam", "map">>, <<"cam", "day">>, <<"map", "persist">>,
     <<"map", "aborted">>, <<"persist", "cam">>}

\* the i-th window of a sweep that starts at day first: day-major, the
\* cameras in ascending order within the day
NthWindow(first, i) ==
    Window((i - 1) % NumCams, first + (i - 1) \div NumCams,
           first + (i - 1) \div NumCams + 1)

\* C20: unless a task raises, every run of the sweep reaches done. The
\* windows a run reaches are, in order, those of the day-major enumeration
\* with cameras 0, 1, 2, 3 within each day, and a run that is done has
\* reached whole days, those before dt_to among them. A window is entered
\* only from the head of the camera loop, and is left either at once (skip)
\* or through map (processing, reducing) and persist, before the next one
\* is entered.
C20_TerminatesInWindowOrder ==
    /\ [](\A p \in Procs :
              /\ \A i \in 1 .. Len(visited[p]) :
                     visited[p][i] = NthWindow(dt_from, i)
              /\ pc[p] = "done" =>
                     /\ Len(visited[p]) % NumCams = 0
                     /\ Len(visited[p]) >= NumCams * (dt_to - dt_from))
    /\ [][\A p \in Procs :
              /\ pc'[p] # pc[p] => <<pc[p], pc'[p]>> \in SweepSteps
              /\ Len(visited'[p]) > Len(visited[p]) =>
                     /\ pc[p] = "cam"
                     /\ pc'[p] \in {"cam", "map"}
                     /\ Len(visited'[p]) = Len(visited[p]) + 1
              /\ (pc[p] \in {"map", "persist"} /\ pc'[p] # "aborted")
                     => visited'[p] = visited[p]]_vars
    /\ \A p \in Procs :
           <>(\/ pc[p] = "done"
              \/ \E q \in DOMAIN db_outcome : db_outcome[q] = "raise")

\* a run is done after two days of four windows each, some of them skipped
\* and some processed and written
C20_Witness ==
    /\ pc[1] = "done"
    /\ Len(visited[1]) = 2 * NumCams
    /\ skipped[1] > 0
    /\ Len(written[1]) >= 2

====
